---- MODULE Spec2Model ----
(***************************************************************************)
(* HarmonyDB backend: the relational tables of songs/models.py and        *)
(* users/models.py, and the REST handlers of songs/views.py and            *)
(* users/views.py that read and write them.  Every handler is one action:  *)
(* authentication, permission checks, queryset lookup, the write and its   *)
(* cascades, and the response it answers (recorded in `last`).             *)
(***************************************************************************)
EXTENDS Integers, FiniteSets, Sequences, TLC

VARIABLES
    users,          \* users_user rows: [id, role, email_verified]
    songs,          \* songs_song rows: [id, artist, album, approved, play_count]
    albums,         \* songs_album rows: [id, artist, title]
    playlists,      \* songs_playlist rows: [id, user, is_public, recent]
    playlistSongs,  \* songs_playlistsong rows: [id, playlist, song, order]
    favorites,      \* songs_favorite rows: [id, user, item_type, item_id]
    history,        \* songs_listeninghistory rows: [id, user, song]
    comments,       \* songs_comment rows: [id, user, item_type, item_id, content]
    nextId,         \* per table, the next auto-increment primary key
    last,           \* the last request and its response
    reqs,           \* the requests that run concurrently, each with its locals
    outstanding,    \* token_blacklist_outstandingtoken rows: [id, user]
    blacklisted,    \* token_blacklist_blacklistedtoken rows, by outstanding token id
    call            \* the MeloAI service call: its inputs and what it returned

tables == <<users, songs, albums, playlists, playlistSongs, favorites, history, comments>>
\* what the handlers that run start-to-end leave alone
rest == <<reqs, outstanding, blacklisted, call>>
vars == <<users, songs, albums, playlists, playlistSongs, favorites, history, comments,
          nextId, last, reqs, outstanding, blacklisted, call>>

(***************************************************************************)
(* Bounds of the model                                                     *)
(***************************************************************************)
\* The create endpoints insert until a table's primary key reaches its cap.
MaxSongs == 1
MaxAlbums == 1
MaxPlaylists == 2
MaxComments == 1
MaxPlaylistSongs == 2
MaxFavorites == 2
\* The toggle requests that run concurrently.
NumRequests == 2
\* The accounts that registration creates.
MaxUsers == 1

(***************************************************************************)
(* Values                                                                  *)
(***************************************************************************)
\* request.user of an unauthenticated request (AnonymousUser)
Anon == 0
\* a null foreign key (Song.album, null=True)
NULL == 0

TableNames ==
    {"user", "song", "album", "playlist", "playlistsong", "favorite", "history", "comment"}

\* The accounts of the content specifications: two artists and a listener.
ContentUsers ==
    { [id |-> 1, role |-> "artist",   email_verified |-> TRUE],
      [id |-> 2, role |-> "artist",   email_verified |-> TRUE],
      [id |-> 3, role |-> "listener", email_verified |-> TRUE] }

UserIds == {u.id : u \in users}
\* who can send a request: every account, and nobody (no credentials)
Requesters == UserIds \cup {Anon}

SONG_ITEM_CHOICES == {"song", "album", "playlist"}
COMMENT_ITEM_CHOICES == {"song", "album"}

HasRow(table, pk) == \E r \in table : r.id = pk
Row(table, pk) == CHOOSE r \in table : r.id = pk
RoleOf(u) == (Row(users, u)).role

\* utils.encode_uid: the urlsafe base64 text of str(pk)
encode_uid(pk) == <<"b64", pk>>
\* a uid parameter that is not the base64 text of a number
BadUid == <<"bad", NULL>>
\* a request without a uid parameter, and one without a token parameter
NoUid == <<"none", NULL>>
NoToken == [kind |-> "none", user |-> NULL, current |-> FALSE]

\* A request and what its handler answers: op names the endpoint, user the
\* requester, pk and arg the keys the request names, uid and token the
\* parameters of a verification or reset link, status the HTTP status,
\* detail the body's message where one matters, shown the playlists whose
\* name or contents the body carries, mailed the mails the handler handed
\* to the mail server.
Response(op, u, pk, status) ==
    [op |-> op, user |-> u, pk |-> pk, arg |-> NULL, uid |-> NoUid, token |-> NoToken,
     status |-> status, detail |-> "", shown |-> {}, mailed |-> {}]

\* no refresh token has been issued, and no MeloAI call made
NoSessions == outstanding = {} /\ blacklisted = {} /\ call = [pc |-> "none"]

(***************************************************************************)
(* users/permissions.py and rest_framework.permissions                     *)
(***************************************************************************)
SAFE_METHODS == {"GET", "HEAD", "OPTIONS"}

IsAuthenticated(u) == u # Anon /\ u \in UserIds

IsArtistOrReadOnly_has_permission(method, u) ==
    IF method \in SAFE_METHODS THEN TRUE
    ELSE IsAuthenticated(u) /\ RoleOf(u) = "artist"

IsOwnerOrReadOnly_has_permission(method, u) ==
    IF method \in SAFE_METHODS THEN TRUE
    ELSE IsAuthenticated(u)

\* the mutant of has_object_permission: every authenticated user passes
Mutant_has_object_permission(method, u, obj) == TRUE

IsOwnerOrReadOnly_has_object_permission(method, u, obj) ==
    IF method \in SAFE_METHODS THEN TRUE
    ELSE IF "user" \in DOMAIN obj THEN obj.user = u
    ELSE IF "artist" \in DOMAIN obj THEN obj.artist = u
    ELSE FALSE

\* DRF permission_denied: 401 without credentials, 403 with
Denied(u) == IF IsAuthenticated(u) THEN 403 ELSE 401

(***************************************************************************)
(* on_delete rules of songs/models.py                                      *)
(***************************************************************************)
\* the mutant of Song.album: CASCADE, the album's songs go with it
Mutant_SongsAfterAlbumDelete(S, gone) == {s \in S : s.album \notin gone}

\* Song.album: SET_NULL
SongsAfterAlbumDelete(S, gone) ==
    {IF s.album \in gone THEN [s EXCEPT !.album = NULL] ELSE s : s \in S}

\* PlaylistSong.playlist and PlaylistSong.song: CASCADE
PlaylistSongsAfterDelete(gonePlaylists, goneSongs) ==
    {ps \in playlistSongs : ps.playlist \notin gonePlaylists /\ ps.song \notin goneSongs}

\* ListeningHistory.user and ListeningHistory.song: CASCADE
HistoryAfterDelete(goneUsers, goneSongs) ==
    {h \in history : h.user \notin goneUsers /\ h.song \notin goneSongs}

(***************************************************************************)
(* Song endpoints                                                          *)
(***************************************************************************)
\* the request body of a song POST/PUT/PATCH: the serializer's fields
\* (artist and play_count are sent too, by a client that tries to set them)
SongBodies ==
    [artist : {2}, play_count : {7}, album : {NULL} \cup {a.id : a \in albums} \cup {9},
     approved : BOOLEAN]

\* SongSerializer: album is a primary-key field over Album.objects.all()
SongBodyValid(body) == body.album = NULL \/ HasRow(albums, body.album)

\* the mutant of the created row: the body's artist and play_count are kept
Mutant_SongCreateRow(u, body, pk) ==
    [id |-> pk, artist |-> body.artist, album |-> body.album, approved |-> body.approved,
     play_count |-> body.play_count]

\* SongSerializer (artist, play_count read-only) and perform_create's save()
SongCreateRow(u, body, pk) ==
    [id |-> pk, artist |-> u, album |-> body.album, approved |-> body.approved,
     play_count |-> 0]

\* POST /api/songs/
SongCreate(u, body) ==
    /\ UNCHANGED rest
    /\ LET pk == nextId["song"] IN
       IF ~IsArtistOrReadOnly_has_permission("POST", u)
       THEN /\ last' = Response("song_create", u, NULL, Denied(u))
            /\ UNCHANGED <<tables, nextId>>
       ELSE IF ~SongBodyValid(body)
       THEN /\ last' = Response("song_create", u, NULL, 400)
            /\ UNCHANGED <<tables, nextId>>
       ELSE IF RoleOf(u) # "artist"
       THEN /\ last' = Response("song_create", u, NULL, 403)
            /\ UNCHANGED <<tables, nextId>>
       ELSE /\ pk <= MaxSongs
            /\ songs' = songs \cup {SongCreateRow(u, body, pk)}
            /\ nextId' = [nextId EXCEPT !["song"] = pk + 1]
            /\ last' = Response("song_create", u, pk, 201)
            /\ UNCHANGED <<users, albums, playlists, playlistSongs, favorites, history, comments>>

\* SongDetailView.get_queryset
SongDetailView_get_queryset(method, u) ==
    IF method \in {"PUT", "PATCH", "DELETE"}
    THEN {s \in songs : s.artist = u}
    ELSE {s \in songs : s.approved}

\* What a detail endpoint answers to an unsafe request before it writes:
\* has_permission, then get_object (queryset lookup, has_object_permission).
\* 0 stands for "proceed".
DetailGate(method, u, queryset, pk) ==
    IF ~IsOwnerOrReadOnly_has_permission(method, u) THEN Denied(u)
    ELSE IF ~HasRow(queryset, pk) THEN 404
    ELSE IF ~IsOwnerOrReadOnly_has_object_permission(method, u, Row(queryset, pk)) THEN 403
    ELSE 0

\* PUT|PATCH /api/songs/<pk>/
SongUpdate(method, u, pk, body) ==
    /\ UNCHANGED rest
    /\ LET gate == DetailGate(method, u, SongDetailView_get_queryset(method, u), pk)
           old == Row(songs, pk)
       IN
       IF gate # 0
       THEN /\ last' = Response("song_update", u, pk, gate)
            /\ UNCHANGED <<tables, nextId>>
       ELSE IF ~SongBodyValid(body)
       THEN /\ last' = Response("song_update", u, pk, 400)
            /\ UNCHANGED <<tables, nextId>>
       ELSE /\ songs' = (songs \ {old}) \cup
                           {[old EXCEPT !.album = body.album, !.approved = body.approved]}
            /\ last' = Response("song_update", u, pk, 200)
            /\ UNCHANGED <<users, albums, playlists, playlistSongs, favorites, history,
                           comments, nextId>>

\* DELETE /api/songs/<pk>/
SongDelete(u, pk) ==
    /\ UNCHANGED rest
    /\ LET gate == DetailGate("DELETE", u, SongDetailView_get_queryset("DELETE", u), pk) IN
       IF gate # 0
       THEN /\ last' = Response("song_delete", u, pk, gate)
            /\ UNCHANGED <<tables, nextId>>
       ELSE /\ songs' = {s \in songs : s.id # pk}
            /\ playlistSongs' = PlaylistSongsAfterDelete({}, {pk})
            /\ history' = HistoryAfterDelete({}, {pk})
            /\ last' = Response("song_delete", u, pk, 204)
            /\ UNCHANGED <<users, albums, playlists, favorites, comments, nextId>>

(***************************************************************************)
(* Album endpoints                                                         *)
(***************************************************************************)
AlbumBodies == [artist : {2}, title : {"a", "b"}]

\* AlbumSerializer (artist read-only) and perform_create's save(artist=request.user)
AlbumCreateRow(u, body, pk) == [id |-> pk, artist |-> u, title |-> body.title]

\* POST /api/songs/albums/ and /api/albums/
AlbumCreate(u, body) ==
    /\ UNCHANGED rest
    /\ LET pk == nextId["album"] IN
       IF ~IsArtistOrReadOnly_has_permission("POST", u)
       THEN /\ last' = Response("album_create", u, NULL, Denied(u))
            /\ UNCHANGED <<tables, nextId>>
       ELSE IF RoleOf(u) # "artist"
       THEN /\ last' = Response("album_create", u, NULL, 403)
            /\ UNCHANGED <<tables, nextId>>
       ELSE /\ pk <= MaxAlbums
            /\ albums' = albums \cup {AlbumCreateRow(u, body, pk)}
            /\ nextId' = [nextId EXCEPT !["album"] = pk + 1]
            /\ last' = Response("album_create", u, pk, 201)
            /\ UNCHANGED <<users, songs, playlists, playlistSongs, favorites, history, comments>>

\* AlbumDetailView.get_queryset
AlbumDetailView_get_queryset(method, u) ==
    IF method \in {"PUT", "PATCH", "DELETE"}
    THEN {a \in albums : a.artist = u}
    ELSE albums

\* PUT|PATCH /api/albums/<pk>/
AlbumUpdate(method, u, pk, body) ==
    /\ UNCHANGED rest
    /\ LET gate == DetailGate(method, u, AlbumDetailView_get_queryset(method, u), pk)
           old == Row(albums, pk)
       IN
       IF gate # 0
       THEN /\ last' = Response("album_update", u, pk, gate)
            /\ UNCHANGED <<tables, nextId>>
       ELSE /\ albums' = (albums \ {old}) \cup {[old EXCEPT !.title = body.title]}
            /\ last' = Response("album_update", u, pk, 200)
            /\ UNCHANGED <<users, songs, playlists, playlistSongs, favorites, history,
                           comments, nextId>>

\* DELETE /api/albums/<pk>/
AlbumDelete(u, pk) ==
    /\ UNCHANGED rest
    /\ LET gate == DetailGate("DELETE", u, AlbumDetailView_get_queryset("DELETE", u), pk) IN
       IF gate # 0
       THEN /\ last' = Response("album_delete", u, pk, gate)
            /\ UNCHANGED <<tables, nextId>>
       ELSE /\ albums' = {a \in albums : a.id # pk}
            /\ songs' = SongsAfterAlbumDelete(songs, {pk})
            /\ last' = Response("album_delete", u, pk, 204)
            /\ UNCHANGED <<users, playlists, playlistSongs, favorites, history, comments, nextId>>

(***************************************************************************)
(* Playlist endpoints                                                      *)
(***************************************************************************)
PlaylistBodies == [user : {1}, is_public : BOOLEAN]

\* PlaylistSerializer (user read-only) and perform_create's save(user=request.user);
\* created_at is now, so the playlist is recent
PlaylistCreateRow(u, body, pk) ==
    [id |-> pk, user |-> u, is_public |-> body.is_public, recent |-> TRUE]

\* POST /api/playlists/ (permissions.IsAuthenticated)
PlaylistCreate(u, body) ==
    /\ UNCHANGED rest
    /\ LET pk == nextId["playlist"] IN
       IF ~IsAuthenticated(u)
       THEN /\ last' = Response("playlist_create", u, NULL, 401)
            /\ UNCHANGED <<tables, nextId>>
       ELSE /\ pk <= MaxPlaylists
            /\ playlists' = playlists \cup {PlaylistCreateRow(u, body, pk)}
            /\ nextId' = [nextId EXCEPT !["playlist"] = pk + 1]
            /\ last' = Response("playlist_create", u, pk, 201)
            /\ UNCHANGED <<users, songs, albums, playlistSongs, favorites, history, comments>>

\* PlaylistDetailView.get_queryset: Q(is_public=True) | Q(user=request.user)
PlaylistDetailView_get_queryset(u) ==
    {p \in playlists : p.is_public \/ p.user = u}

\* PUT|PATCH /api/playlists/<pk>/
PlaylistUpdate(method, u, pk, body) ==
    /\ UNCHANGED rest
    /\ LET gate == DetailGate(method, u, PlaylistDetailView_get_queryset(u), pk)
           old == Row(playlists, pk)
       IN
       IF gate # 0
       THEN /\ last' = Response("playlist_update", u, pk, gate)
            /\ UNCHANGED <<tables, nextId>>
       ELSE /\ playlists' = (playlists \ {old}) \cup {[old EXCEPT !.is_public = body.is_public]}
            /\ last' = Response("playlist_update", u, pk, 200)
            /\ UNCHANGED <<users, songs, albums, playlistSongs, favorites, history,
                           comments, nextId>>

\* DELETE /api/playlists/<pk>/
PlaylistDelete(u, pk) ==
    /\ UNCHANGED rest
    /\ LET gate == DetailGate("DELETE", u, PlaylistDetailView_get_queryset(u), pk) IN
       IF gate # 0
       THEN /\ last' = Response("playlist_delete", u, pk, gate)
            /\ UNCHANGED <<tables, nextId>>
       ELSE /\ playlists' = {p \in playlists : p.id # pk}
            /\ playlistSongs' = PlaylistSongsAfterDelete({pk}, {})
            /\ last' = Response("playlist_delete", u, pk, 204)
            /\ UNCHANGED <<users, songs, albums, favorites, history, comments, nextId>>

\* the favorites a playlist must have to count as popular (HAVING COUNT(f.id) >= 3)
PopularMinFavorites == 3

\* PlaylistListCreateView.get_queryset: Q(is_public=True) | Q(user=request.user)
PlaylistListCreateView_get_queryset(u) ==
    {p \in playlists : p.is_public \/ p.user = u}

\* the raw UNION query of PlaylistListCreateView.list: the popular playlists
\* and those created in the last 7 days, of songs_playlist as a whole
PopularAndRecent ==
    {p \in playlists :
        \/ Cardinality({f \in favorites : f.item_type = "playlist" /\ f.item_id = p.id})
              >= PopularMinFavorites
        \/ p.recent}

\* GET /api/playlists/ (permissions.IsAuthenticated).  paged: the project
\* configures a pagination class, so paginate_queryset returns a page and the
\* body carries statistics, popular_and_recent and type_distribution as well.
PlaylistList(u, paged) ==
    /\ UNCHANGED rest
    /\ UNCHANGED <<tables, nextId>>
    /\ IF ~IsAuthenticated(u)
       THEN last' = Response("playlist_list", u, NULL, 401)
       ELSE last' = [Response("playlist_list", u, NULL, 200) EXCEPT
                       !.detail = IF paged THEN "paged" ELSE "",
                       !.shown = {p.id : p \in PlaylistListCreateView_get_queryset(u)} \cup
                                 (IF paged THEN {p.id : p \in PopularAndRecent} ELSE {})]

\* GET /api/playlists/<pk>/.  IsOwnerOrReadOnly lets every GET through; the
\* queryset's Q(user=request.user) cannot be built for AnonymousUser, which
\* ends the request with an unhandled TypeError.
PlaylistDetailGet(u, pk) ==
    /\ UNCHANGED rest
    /\ UNCHANGED <<tables, nextId>>
    /\ IF ~IsAuthenticated(u)
       THEN last' = Response("playlist_detail", u, pk, 500)
       ELSE IF ~HasRow(PlaylistDetailView_get_queryset(u), pk)
       THEN last' = Response("playlist_detail", u, pk, 404)
       ELSE last' = [Response("playlist_detail", u, pk, 200) EXCEPT !.shown = {pk}]


\* GET /api/songs/search/advanced/ (permissions.IsAuthenticatedOrReadOnly):
\* results['playlists'] and the unified search both filter is_public = true
AnalyticsAdvancedSearchView_get(u, search_type) ==
    /\ UNCHANGED rest
    /\ UNCHANGED <<tables, nextId>>
    /\ last' = [Response("search", u, NULL, 200) EXCEPT
                  !.detail = search_type,
                  !.shown = IF search_type \in {"all", "playlists"}
                            THEN {p.id : p \in {q \in playlists : q.is_public}}
                            ELSE {}]

\* Seven days pass: no playlist is "created in the last 7 days" any more.
TimePasses ==
    /\ UNCHANGED rest
    /\ \E p \in playlists : p.recent
    /\ playlists' = {[p EXCEPT !.recent = FALSE] : p \in playlists}
    /\ last' = Response("none", Anon, NULL, 0)
    /\ UNCHANGED <<users, songs, albums, playlistSongs, favorites, history, comments, nextId>>

\* the value of request.data.get('song_id') when the body has none
NoSongId == 0

\* the mutant of get_or_create: the row is inserted without looking for one
Mutant_get_or_create_PlaylistSong(pl, song_id, pk) ==
    [created |-> TRUE,
     rows |-> playlistSongs \cup
              {[id |-> pk, playlist |-> pl, song |-> song_id,
                order |-> Cardinality({ps \in playlistSongs : ps.playlist = pl})]}]

\* PlaylistSong.objects.get_or_create(playlist, song,
\*     defaults={'order': playlist.playlist_songs.count()})
get_or_create_PlaylistSong(pl, song_id, pk) ==
    IF \E ps \in playlistSongs : ps.playlist = pl /\ ps.song = song_id
    THEN [created |-> FALSE, rows |-> playlistSongs]
    ELSE [created |-> TRUE,
          rows |-> playlistSongs \cup
                   {[id |-> pk, playlist |-> pl, song |-> song_id,
                     order |-> Cardinality({ps \in playlistSongs : ps.playlist = pl})]}]

\* the mutant of the playlist lookup of add-song and remove-song: any playlist
Mutant_OwnPlaylists(u) == playlists

\* get_object_or_404(Playlist, id=playlist_id, user=request.user)
OwnPlaylists(u) == {p \in playlists : p.user = u}

\* POST /api/playlists/<playlist_id>/add-song/ (permissions.IsAuthenticated)
PlaylistAddSong(u, pl, song_id) ==
    /\ UNCHANGED rest
    /\ LET answer(status, detail) ==
               [Response("add_song", u, pl, status) EXCEPT !.arg = song_id, !.detail = detail]
           pk == nextId["playlistsong"]
           got == get_or_create_PlaylistSong(pl, song_id, pk)
       IN
       IF ~IsAuthenticated(u)
       THEN /\ last' = answer(401, "")
            /\ UNCHANGED <<tables, nextId>>
       ELSE IF ~HasRow(OwnPlaylists(u), pl)
       THEN /\ last' = answer(404, "")
            /\ UNCHANGED <<tables, nextId>>
       ELSE IF song_id = NoSongId
       THEN /\ last' = answer(400, "song_id is required")
            /\ UNCHANGED <<tables, nextId>>
       ELSE IF ~\E s \in songs : s.id = song_id /\ s.approved
       THEN /\ last' = answer(404, "")
            /\ UNCHANGED <<tables, nextId>>
       ELSE IF ~got.created
       THEN /\ last' = answer(400, "Song already in playlist")
            /\ UNCHANGED <<tables, nextId>>
       ELSE /\ pk <= MaxPlaylistSongs
            /\ playlistSongs' = got.rows
            /\ nextId' = [nextId EXCEPT !["playlistsong"] = pk + 1]
            /\ last' = answer(201, "")
            /\ UNCHANGED <<users, songs, albums, playlists, favorites, history, comments>>

\* DELETE /api/playlists/<playlist_id>/remove-song/<song_id>/
PlaylistRemoveSong(u, pl, song_id) ==
    /\ UNCHANGED rest
    /\ LET answer(status) == [Response("remove_song", u, pl, status) EXCEPT !.arg = song_id] IN
       IF ~IsAuthenticated(u)
       THEN /\ last' = answer(401)
            /\ UNCHANGED <<tables, nextId>>
       ELSE IF ~HasRow(OwnPlaylists(u), pl)
       THEN /\ last' = answer(404)
            /\ UNCHANGED <<tables, nextId>>
       ELSE IF ~\E ps \in playlistSongs : ps.playlist = pl /\ ps.song = song_id
       THEN /\ last' = answer(404)
            /\ UNCHANGED <<tables, nextId>>
       ELSE /\ playlistSongs' = {ps \in playlistSongs : ~(ps.playlist = pl /\ ps.song = song_id)}
            /\ last' = answer(204)
            /\ UNCHANGED <<users, songs, albums, playlists, favorites, history, comments, nextId>>

(***************************************************************************)
(* Comment endpoints                                                       *)
(***************************************************************************)
CommentBodies == [user : {1}, item_type : {"song"}, item_id : {1}, content : {"x", "y"}]

\* CommentSerializer.create (user read-only, user = request.user)
CommentCreateRow(u, body, pk) ==
    [id |-> pk, user |-> u, item_type |-> body.item_type, item_id |-> body.item_id,
     content |-> body.content]

\* POST /api/songs/comments/ (permissions.IsAuthenticatedOrReadOnly)
CommentCreate(u, body) ==
    /\ UNCHANGED rest
    /\ LET pk == nextId["comment"] IN
       IF ~IsAuthenticated(u)
       THEN /\ last' = Response("comment_create", u, NULL, 401)
            /\ UNCHANGED <<tables, nextId>>
       ELSE /\ pk <= MaxComments
            /\ comments' = comments \cup {CommentCreateRow(u, body, pk)}
            /\ nextId' = [nextId EXCEPT !["comment"] = pk + 1]
            /\ last' = Response("comment_create", u, pk, 201)
            /\ UNCHANGED <<users, songs, albums, playlists, playlistSongs, favorites, history>>

\* PUT|PATCH /api/songs/comments/<pk>/ (queryset = Comment.objects.all())
CommentUpdate(method, u, pk, body) ==
    /\ UNCHANGED rest
    /\ LET gate == DetailGate(method, u, comments, pk)
           old == Row(comments, pk)
       IN
       IF gate # 0
       THEN /\ last' = Response("comment_update", u, pk, gate)
            /\ UNCHANGED <<tables, nextId>>
       ELSE /\ comments' = (comments \ {old}) \cup
                              {[old EXCEPT !.item_type = body.item_type, !.item_id = body.item_id,
                                           !.content = body.content]}
            /\ last' = Response("comment_update", u, pk, 200)
            /\ UNCHANGED <<users, songs, albums, playlists, playlistSongs, favorites, history,
                           nextId>>

\* DELETE /api/songs/comments/<pk>/
CommentDelete(u, pk) ==
    /\ UNCHANGED rest
    /\ LET gate == DetailGate("DELETE", u, comments, pk) IN
       IF gate # 0
       THEN /\ last' = Response("comment_delete", u, pk, gate)
            /\ UNCHANGED <<tables, nextId>>
       ELSE /\ comments' = {c \in comments : c.id # pk}
            /\ last' = Response("comment_delete", u, pk, 204)
            /\ UNCHANGED <<users, songs, albums, playlists, playlistSongs, favorites, history,
                           nextId>>

(***************************************************************************)
(* Spec: the detail endpoints (PUT, PATCH, DELETE) of songs, albums,       *)
(* playlists and comments, on a database that holds one row of each.       *)
(***************************************************************************)
NoRequest == Response("none", Anon, NULL, 0)
WriteMethods == {"PUT", "PATCH"}
\* primary keys a request can name: the row that exists and one that never did
DetailPks == {1, 2}

DetailSongs == {[id |-> 1, artist |-> 1, album |-> NULL, approved |-> TRUE, play_count |-> 0]}
DetailAlbums == {[id |-> 1, artist |-> 1, title |-> "a"]}
DetailPlaylists == {[id |-> 1, user |-> 3, is_public |-> TRUE, recent |-> TRUE]}
DetailComments ==
    {[id |-> 1, user |-> 3, item_type |-> "song", item_id |-> 1, content |-> "x"]}

Init ==
    /\ users = ContentUsers
    /\ songs = DetailSongs
    /\ albums = DetailAlbums
    /\ playlists = DetailPlaylists
    /\ comments = DetailComments
    /\ playlistSongs = {} /\ favorites = {} /\ history = {}
    /\ nextId = [t \in TableNames |-> IF t = "user" THEN 4 ELSE 2]
    /\ last = NoRequest
    /\ reqs = <<>>
    /\ NoSessions

Next ==
    \/ \E m \in WriteMethods, u \in Requesters, pk \in DetailPks, body \in SongBodies :
          SongUpdate(m, u, pk, body)
    \/ \E m \in WriteMethods, u \in Requesters, pk \in DetailPks, body \in AlbumBodies :
          AlbumUpdate(m, u, pk, body)
    \/ \E m \in WriteMethods, u \in Requesters, pk \in DetailPks, body \in PlaylistBodies :
          PlaylistUpdate(m, u, pk, body)
    \/ \E m \in WriteMethods, u \in Requesters, pk \in DetailPks, body \in CommentBodies :
          CommentUpdate(m, u, pk, body)
    \/ \E u \in Requesters, pk \in DetailPks : SongDelete(u, pk)
    \/ \E u \in Requesters, pk \in DetailPks : AlbumDelete(u, pk)
    \/ \E u \in Requesters, pk \in DetailPks : PlaylistDelete(u, pk)
    \/ \E u \in Requesters, pk \in DetailPks : CommentDelete(u, pk)

Spec == Init /\ [][Next]_vars

(***************************************************************************)
(* SpecCreate: the create endpoints of songs and albums, from an empty     *)
(* database.                                                               *)
(***************************************************************************)
InitCreate ==
    /\ users = ContentUsers
    /\ songs = {} /\ albums = {} /\ playlists = {} /\ playlistSongs = {}
    /\ favorites = {} /\ history = {} /\ comments = {}
    /\ nextId = [t \in TableNames |-> IF t = "user" THEN 4 ELSE 1]
    /\ last = NoRequest
    /\ reqs = <<>>
    /\ NoSessions

NextCreate ==
    \/ \E u \in Requesters, body \in SongBodies : SongCreate(u, body)
    \/ \E u \in Requesters, body \in AlbumBodies : AlbumCreate(u, body)

SpecCreate == InitCreate /\ [][NextCreate]_vars

(***************************************************************************)
(* Claims on the detail and create endpoints                               *)
(***************************************************************************)
DetailOps == {"song_update", "song_delete", "album_update", "album_delete",
              "playlist_update", "playlist_delete", "comment_update", "comment_delete"}

\* the table a detail request addresses
TargetTable(op) ==
    IF op \in {"song_update", "song_delete"} THEN songs
    ELSE IF op \in {"album_update", "album_delete"} THEN albums
    ELSE IF op \in {"playlist_update", "playlist_delete"} THEN playlists
    ELSE comments

\* the artist of a song or album, the user of a playlist or comment
OwnerOf(obj) == IF "user" \in DOMAIN obj THEN obj.user ELSE obj.artist

\* the requester of the step's request is authenticated and owns the row it names
RequesterOwnsTarget ==
    /\ last'.user # Anon
    /\ \E o \in TargetTable(last'.op) : o.id = last'.pk /\ OwnerOf(o) = last'.user

(* C1: on the song, album, playlist and comment detail endpoints a PUT, PATCH
   or DELETE by anyone but the authenticated owner of the addressed row is
   rejected (401, 403 or 404) and leaves every table unchanged; so a step of
   these endpoints that changes any row is a request of the row's owner. *)
C1_OnlyOwnerWrites ==
    [][ last'.op \in DetailOps =>
          /\ ~RequesterOwnsTarget =>
                /\ last'.status \in {401, 403, 404}
                /\ UNCHANGED <<tables, nextId>>
          /\ tables' # tables => RequesterOwnsTarget /\ last'.status \in {200, 204}
      ]_vars

\* a non-owner asked to delete a public playlist that exists, and was refused
C1_Witness ==
    /\ last.op = "playlist_delete" /\ last.status = 403
    /\ \E p \in playlists : p.id = last.pk /\ p.user # last.user

\* the requester of the step's request is an authenticated artist
RequesterIsArtist ==
    /\ last'.user # Anon
    /\ \E u \in users : u.id = last'.user /\ u.role = "artist"

(* C2: a POST to the song or album create endpoint inserts a row only for an
   authenticated requester of role artist; anyone else is denied (401 or 403)
   and nothing changes; the inserted song has artist = requester and
   play_count = 0 and the inserted album has artist = requester, whatever
   artist or play_count the body names. *)
C2_OnlyArtistsCreate ==
    [][ last'.op \in {"song_create", "album_create"} =>
          /\ ~RequesterIsArtist =>
                /\ last'.status \in {401, 403}
                /\ UNCHANGED <<tables, nextId>>
          /\ tables' # tables => RequesterIsArtist /\ last'.status = 201
          /\ \A s \in songs' \ songs : s.artist = last'.user /\ s.play_count = 0
          /\ \A a \in albums' \ albums : a.artist = last'.user
      ]_vars

\* artist 1 created a song with a body that named artist 2 and play_count 7
C2_Witness ==
    /\ last.op = "song_create" /\ last.status = 201 /\ last.user = 1
    /\ \E s \in songs : s.id = last.pk /\ s.artist = 1 /\ s.play_count = 0

(***************************************************************************)
(* SpecPlaylist: who sees which playlist.  Playlists are created, made     *)
(* private or public and deleted by their owners, and read through the     *)
(* list, detail and advanced search endpoints.                             *)
(***************************************************************************)

InitPlaylist ==
    /\ users = ContentUsers
    /\ songs = {} /\ albums = {} /\ playlists = {} /\ playlistSongs = {}
    /\ favorites = {} /\ history = {} /\ comments = {}
    /\ nextId = [t \in TableNames |-> IF t = "user" THEN 4 ELSE 1]
    /\ last = NoRequest
    /\ reqs = <<>>
    /\ NoSessions

NextPlaylist ==
    \/ \E u \in Requesters, body \in PlaylistBodies : PlaylistCreate(u, body)
    \/ \E u \in Requesters, pk \in 1..MaxPlaylists, body \in PlaylistBodies :
          PlaylistUpdate("PATCH", u, pk, body)
    \/ \E u \in Requesters, pk \in 1..MaxPlaylists : PlaylistDelete(u, pk)
    \/ \E u \in Requesters, paged \in BOOLEAN : PlaylistList(u, paged)
    \/ \E u \in Requesters, pk \in 1..MaxPlaylists : PlaylistDetailGet(u, pk)
    \/ \E u \in Requesters, ty \in {"all", "songs", "playlists"} :
          AnalyticsAdvancedSearchView_get(u, ty)
    \/ TimePasses

SpecPlaylist == InitPlaylist /\ [][NextPlaylist]_vars

(* C3: a playlist with is_public = False is shown to its owner alone: no
   response of the playlist list endpoint (its popular_and_recent section
   included), of the playlist detail endpoint or of the advanced search
   carries a private playlist of somebody other than the requester. *)
C3_PrivateShownToOwnerOnly ==
    last.op \in {"playlist_list", "playlist_detail", "search"} =>
        \A pk \in last.shown :
            \E p \in playlists : p.id = pk /\ (p.is_public \/ p.user = last.user)

(***************************************************************************)
(* SpecPlaylistSongs: the add-song and remove-song endpoints, on two       *)
(* playlists (an artist's and a listener's) and two songs that their       *)
(* artist approves and unapproves.                                         *)
(***************************************************************************)
EntrySongs ==
    { [id |-> 1, artist |-> 1, album |-> NULL, approved |-> TRUE, play_count |-> 0],
      [id |-> 2, artist |-> 1, album |-> NULL, approved |-> FALSE, play_count |-> 0] }
EntryUsers == {u \in ContentUsers : u.id \in {1, 3}}
EntryPlaylists ==
    { [id |-> 1, user |-> 1, is_public |-> TRUE, recent |-> TRUE],
      [id |-> 2, user |-> 3, is_public |-> FALSE, recent |-> TRUE] }
\* the playlists and songs a request can name: those that exist and one that does not
EntryPlaylistIds == {1, 2, 3}
EntrySongIds == {1, 2, 3}
ApprovedBodies == [artist : {2}, play_count : {7}, album : {NULL}, approved : BOOLEAN]

InitPlaylistSongs ==
    /\ users = EntryUsers
    /\ songs = EntrySongs
    /\ playlists = EntryPlaylists
    /\ albums = {} /\ playlistSongs = {} /\ favorites = {} /\ history = {} /\ comments = {}
    /\ nextId = [t \in TableNames |-> IF t \in {"song", "playlist"} THEN 3
                                   ELSE IF t = "user" THEN 4 ELSE 1]
    /\ last = NoRequest
    /\ reqs = <<>>
    /\ NoSessions

NextPlaylistSongs ==
    \/ \E u \in Requesters, pl \in EntryPlaylistIds, s \in EntrySongIds \cup {NoSongId} :
          PlaylistAddSong(u, pl, s)
    \/ \E u \in Requesters, pl \in EntryPlaylistIds, s \in EntrySongIds :
          PlaylistRemoveSong(u, pl, s)
    \/ \E u \in UserIds, pk \in EntrySongIds, body \in ApprovedBodies :
          SongUpdate("PATCH", u, pk, body)

SpecPlaylistSongs == InitPlaylistSongs /\ [][NextPlaylistSongs]_vars

\* of the step's add-song or remove-song request, in the state it arrives in
RequesterOwnsPlaylist ==
    /\ last'.user # Anon
    /\ \E p \in playlists : p.id = last'.pk /\ p.user = last'.user
SongIsApproved == \E s \in songs : s.id = last'.arg /\ s.approved
SongInPlaylist == \E ps \in playlistSongs : ps.playlist = last'.pk /\ ps.song = last'.arg

\* no two PlaylistSong rows of one playlist hold the same song
UniquePlaylistSong ==
    \A a, b \in playlistSongs : (a.playlist = b.playlist /\ a.song = b.song) => a = b

(* C7: in every reachable state there is at most one PlaylistSong row per
   (playlist, song); an add-song request for a song already in the playlist
   never inserts and leaves the playlist's entries and their order values
   unchanged, and it answers 400 'Song already in playlist' when it gets as
   far as the insertion (the requester owns the playlist and the song is
   approved). *)
C7_SongOncePerPlaylist ==
    /\ []UniquePlaylistSong
    /\ [][ (last'.op = "add_song" /\ SongInPlaylist) =>
             /\ UNCHANGED <<tables, nextId>>
             /\ (RequesterOwnsPlaylist /\ SongIsApproved) =>
                   (last'.status = 400 /\ last'.detail = "Song already in playlist")
         ]_vars

\* the owner added a song to a playlist that already held it
C7_Witness ==
    /\ last.op = "add_song" /\ last.status = 400 /\ last.detail = "Song already in playlist"
    /\ \E ps \in playlistSongs : ps.playlist = last.pk /\ ps.song = last.arg
    /\ Cardinality(playlistSongs) >= 2

(* C8: add-song and remove-song change a playlist's entries only for the
   playlist's user and never change a playlist row; the owner's add of an
   approved song not yet in the playlist succeeds (201) whatever the owner's
   role and appends it with order = the number of entries; a request of an
   authenticated user on a playlist that is not theirs answers 404; on their
   own playlist an add without song_id answers 400, an add of a missing or
   unapproved song 404, a remove of a song that is not in the playlist 404;
   every one of these refusals leaves all tables unchanged. *)
C8_OwnPlaylistsOnly ==
    [][ /\ last'.op \in {"add_song", "remove_song"} =>
              /\ playlists' = playlists
              /\ playlistSongs' # playlistSongs => RequesterOwnsPlaylist
              /\ (last'.user # Anon /\ ~RequesterOwnsPlaylist) =>
                    (last'.status = 404 /\ UNCHANGED <<tables, nextId>>)
        /\ (last'.op = "add_song" /\ RequesterOwnsPlaylist) =>
              /\ last'.arg = NoSongId =>
                    (last'.status = 400 /\ last'.detail = "song_id is required"
                       /\ UNCHANGED <<tables, nextId>>)
              /\ (last'.arg # NoSongId /\ ~SongIsApproved) =>
                    (last'.status = 404 /\ UNCHANGED <<tables, nextId>>)
              /\ (SongIsApproved /\ ~SongInPlaylist) =>
                    /\ last'.status = 201
                    /\ \E ps \in playlistSongs' \ playlistSongs :
                          /\ ps.playlist = last'.pk /\ ps.song = last'.arg
                          /\ ps.order = Cardinality({x \in playlistSongs : x.playlist = last'.pk})
                          /\ playlistSongs' = playlistSongs \cup {ps}
        /\ (last'.op = "remove_song" /\ RequesterOwnsPlaylist) =>
              IF SongInPlaylist
              THEN /\ last'.status = 204
                   /\ playlistSongs' = {ps \in playlistSongs :
                                           ~(ps.playlist = last'.pk /\ ps.song = last'.arg)}
              ELSE last'.status = 404 /\ UNCHANGED <<tables, nextId>>
      ]_vars

\* the listener added an approved song of an artist to the listener's own playlist
C8_Witness ==
    /\ last.op = "add_song" /\ last.status = 201
    /\ \E u \in users : u.id = last.user /\ u.role = "listener"
    /\ \E ps \in playlistSongs : ps.playlist = last.pk /\ ps.song = last.arg

(***************************************************************************)
(* Favorite endpoints                                                      *)
(***************************************************************************)
\* the rows of F for (user, item_type, item_id)
FavoritesOf(F, u, item_type, item_id) ==
    {f \in F : f.user = u /\ f.item_type = item_type /\ f.item_id = item_id}

\* the mutant of the schema: Favorite without its unique_together
Mutant_Favorite_unique_together(F, row) == TRUE

\* Favorite.Meta.unique_together = ('user', 'item_type', 'item_id'): whether
\* the database accepts the INSERT of row into F
Favorite_unique_together(F, row) ==
    FavoritesOf(F, row.user, row.item_type, row.item_id) = {}

\* POST /api/songs/favorites/ (permissions.IsAuthenticated).  FavoriteSerializer
\* checks item_type against ITEM_CHOICES and nothing about the item; user is
\* read-only, so a duplicate is stopped by the serializer's unique-together
\* validator (400) or, where the validator skips read-only fields, by the
\* database (an unhandled IntegrityError, 500).
FavoriteCreate(u, item_type, item_id) ==
    /\ UNCHANGED rest
    /\ LET pk == nextId["favorite"]
           row == [id |-> pk, user |-> u, item_type |-> item_type, item_id |-> item_id]
           answer(status) ==
               [Response("favorite_create", u, item_id, status) EXCEPT !.detail = item_type]
       IN
       IF ~IsAuthenticated(u)
       THEN /\ last' = answer(401)
            /\ UNCHANGED <<tables, nextId>>
       ELSE IF item_type \notin SONG_ITEM_CHOICES
       THEN /\ last' = answer(400)
            /\ UNCHANGED <<tables, nextId>>
       ELSE IF ~Favorite_unique_together(favorites, row)
       THEN /\ \E status \in {400, 500} : last' = answer(status)
            /\ UNCHANGED <<tables, nextId>>
       ELSE /\ pk <= MaxFavorites
            /\ favorites' = favorites \cup {row}
            /\ nextId' = [nextId EXCEPT !["favorite"] = pk + 1]
            /\ last' = answer(201)
            /\ UNCHANGED <<users, songs, albums, playlists, playlistSongs, history, comments>>

\* DELETE /api/songs/favorites/<pk>/ (queryset: the requester's favorites)
FavoriteDelete(u, pk) ==
    /\ UNCHANGED rest
    /\ IF ~IsAuthenticated(u)
       THEN /\ last' = Response("favorite_delete", u, pk, 401)
            /\ UNCHANGED <<tables, nextId>>
       ELSE IF ~\E f \in favorites : f.id = pk /\ f.user = u
       THEN /\ last' = Response("favorite_delete", u, pk, 404)
            /\ UNCHANGED <<tables, nextId>>
       ELSE /\ favorites' = {f \in favorites : f.id # pk}
            /\ last' = Response("favorite_delete", u, pk, 204)
            /\ UNCHANGED <<users, songs, albums, playlists, playlistSongs, history, comments,
                           nextId>>

\* the values of request.data.get(...) when the body lacks the field
NoItemType == ""
NoItemId == 0

\* ToggleFavoriteView.post: "Validate item exists using EXISTS-style query"
item_exists(u, item_type, item_id) ==
    IF item_type = "song" THEN \E s \in songs : s.id = item_id /\ s.approved
    ELSE IF item_type = "album" THEN \E a \in albums : a.id = item_id
    ELSE IF item_type = "playlist"
    THEN \E p \in playlists : p.id = item_id /\ (p.is_public \/ p.user = u)
    ELSE FALSE

\* the mutant of the toggle's DELETE: the filter forgets user=request.user
Mutant_ToggleDeleted(F, u, item_type, item_id) ==
    {f \in F : ~(f.item_type = item_type /\ f.item_id = item_id)}

\* Favorite.objects.filter(user, item_type, item_id).delete()
ToggleDeleted(F, u, item_type, item_id) == F \ FavoritesOf(F, u, item_type, item_id)

\* ToggleFavoriteView.post run start-to-end on the favorites F, with pk the
\* next primary key: the status, the body's favorited flag and the favorites
\* it leaves.  status 0: the handler does not get as far as the toggle.
ToggleOutcome(F, u, item_type, item_id, pk) ==
    IF ~item_exists(u, item_type, item_id)
    THEN [status |-> 404, detail |-> "", favorites |-> F]
    ELSE IF FavoritesOf(F, u, item_type, item_id) # {}
    THEN [status |-> 200, detail |-> "favorited=false",
          favorites |-> ToggleDeleted(F, u, item_type, item_id)]
    ELSE [status |-> 201, detail |-> "favorited=true",
          favorites |-> F \cup {[id |-> pk, user |-> u, item_type |-> item_type,
                                 item_id |-> item_id]}]

\* POST /api/songs/favorites/toggle/ (permissions.IsAuthenticated), one
\* request at a time
ToggleFavorite(u, item_type, item_id) ==
    /\ UNCHANGED rest
    /\ LET pk == nextId["favorite"]
           out == ToggleOutcome(favorites, u, item_type, item_id, pk)
           answer(status, detail) ==
               [Response("toggle", u, item_id, status) EXCEPT
                   !.arg = item_type, !.detail = detail]
       IN
       IF ~IsAuthenticated(u)
       THEN /\ last' = answer(401, "")
            /\ UNCHANGED <<tables, nextId>>
       ELSE IF item_type = NoItemType \/ item_id = NoItemId
       THEN /\ last' = answer(400, "item_type and item_id are required")
            /\ UNCHANGED <<tables, nextId>>
       ELSE /\ out.status = 201 => pk <= MaxFavorites
            /\ favorites' = out.favorites
            /\ nextId' = IF out.status = 201
                         THEN [nextId EXCEPT !["favorite"] = pk + 1] ELSE nextId
            /\ last' = answer(out.status, out.detail)
            /\ UNCHANGED <<users, songs, albums, playlists, playlistSongs, history, comments>>

(***************************************************************************)
(* SpecFav: favorites are toggled, created and deleted, one request at a   *)
(* time, over a song that is approved, one that is not, an album and two   *)
(* playlists, one of them private.                                         *)
(***************************************************************************)
FavAlbums == {[id |-> 1, artist |-> 1, title |-> "a"]}
\* the items a favorite request names
FavItems == { <<"song", 1>>, <<"song", 2>>, <<"playlist", 2>>, <<"album", 2>>,
              <<"video", 1>>, <<NoItemType, 1>>, <<"song", NoItemId>> }

InitFav ==
    /\ users = EntryUsers
    /\ songs = EntrySongs
    /\ albums = FavAlbums
    /\ playlists = EntryPlaylists
    /\ playlistSongs = {} /\ favorites = {} /\ history = {} /\ comments = {}
    /\ nextId = [t \in TableNames |->
                    IF t \in {"song", "playlist"} THEN 3
                    ELSE IF t = "album" THEN 2
                    ELSE IF t = "user" THEN 4 ELSE 1]
    /\ last = NoRequest
    /\ reqs = <<>>
    /\ NoSessions

NextFav ==
    \/ \E u \in Requesters, it \in FavItems : ToggleFavorite(u, it[1], it[2])
    \/ \E u \in Requesters, it \in FavItems : FavoriteCreate(u, it[1], it[2])
    \/ \E u \in Requesters, pk \in 1..MaxFavorites : FavoriteDelete(u, pk)

SpecFav == InitFav /\ [][NextFav]_vars

(* C4: in every reachable state, after any sequence of favorite toggles,
   creations (POST favorites/) and deletions by any users, there is at most
   one Favorite row for any (user, item_type, item_id). *)
C4_UniqueFavorite ==
    \A a, b \in favorites :
        (a.user = b.user /\ a.item_type = b.item_type /\ a.item_id = b.item_id) => a = b

\* a second favorite for the same triple was asked for, and refused
C4_Witness ==
    /\ last.op = "favorite_create" /\ last.status \in {400, 500}
    /\ FavoritesOf(favorites, last.user, last.detail, last.pk) # {}

\* the (item_type, item_id) pairs user u has favorited in F
FavoriteKeys(F, u) == {<<f.item_type, f.item_id>> : f \in {g \in F : g.user = u}}

\* toggling twice, right now, gives user u the favorites u has now
TwoTogglesRestore ==
    \A u \in UserIds, it \in FavItems :
        item_exists(u, it[1], it[2]) =>
            LET pk == nextId["favorite"]
                one == ToggleOutcome(favorites, u, it[1], it[2], pk)
                two == ToggleOutcome(one.favorites, u, it[1], it[2], pk + 1)
            IN /\ {one.status, two.status} = {200, 201}
               /\ FavoriteKeys(two.favorites, u) = FavoriteKeys(favorites, u)
               /\ \A v \in UserIds \ {u} :
                     {f \in two.favorites : f.user = v} = {f \in favorites : f.user = v}

(* C5: a toggle by an authenticated user on an existing, permitted item
   creates exactly one Favorite row and answers 201 favorited = true when the
   user has none for the item, and deletes the user's row and answers 200
   favorited = false when the user has one; two consecutive toggles by a user
   on an item restore the user's set of favorites; no toggle changes the
   favorites of another user. *)
C5_ToggleTogglesMembership ==
    /\ []TwoTogglesRestore
    /\ [][ last'.op = "toggle" =>
             /\ {f \in favorites' : f.user # last'.user} =
                   {f \in favorites : f.user # last'.user}
             /\ (last'.user # Anon /\ item_exists(last'.user, last'.arg, last'.pk)) =>
                   LET mine == FavoritesOf(favorites, last'.user, last'.arg, last'.pk) IN
                   IF mine = {}
                   THEN /\ last'.status = 201 /\ last'.detail = "favorited=true"
                        /\ \E f \in favorites' \ favorites :
                              /\ favorites' = favorites \cup {f}
                              /\ f.user = last'.user /\ f.item_type = last'.arg
                              /\ f.item_id = last'.pk
                   ELSE /\ last'.status = 200 /\ last'.detail = "favorited=false"
                        /\ favorites' = favorites \ mine
         ]_vars

\* a user toggled a favorite off while the other user kept a favorite
C5_Witness ==
    /\ last.op = "toggle" /\ last.status = 200 /\ last.detail = "favorited=false"
    /\ FavoritesOf(favorites, last.user, last.arg, last.pk) = {}
    /\ \E f \in favorites : f.user # last.user

(***************************************************************************)
(* SpecToggle: NumRequests toggle requests run concurrently, each in its   *)
(* own worker and database transaction.  A request's steps are its         *)
(* database statements: the SELECTs that validate the item and look for    *)
(* the favorite, then the DELETE or INSERT, which commits with the end of  *)
(* the atomic block.  transaction.atomic() takes no lock on what the       *)
(* SELECT read.                                                            *)
(***************************************************************************)
ReqIds == 1..NumRequests
\* what a toggle request of SpecToggle asks for
ToggleAsks == { [user |-> 1, item_type |-> "song", item_id |-> 1],
                [user |-> 3, item_type |-> "song", item_id |-> 1],
                [user |-> 1, item_type |-> "song", item_id |-> 2],
                [user |-> 3, item_type |-> "playlist", item_id |-> 2] }
\* the favorites when the requests arrive: user 3 has favorited song 1
ToggleFavorites == {[id |-> 1, user |-> 3, item_type |-> "song", item_id |-> 1]}

NewRequest(ask) ==
    [user |-> ask.user, item_type |-> ask.item_type, item_id |-> ask.item_id,
     pc |-> "start", favorite_exists |-> FALSE, status |-> 0, detail |-> ""]

InitToggle ==
    /\ users = EntryUsers
    /\ songs = EntrySongs
    /\ albums = FavAlbums
    /\ playlists = EntryPlaylists
    /\ favorites = ToggleFavorites
    /\ playlistSongs = {} /\ history = {} /\ comments = {}
    /\ nextId = [t \in TableNames |->
                    IF t \in {"song", "playlist"} THEN 3
                    ELSE IF t \in {"album", "favorite"} THEN 2
                    ELSE IF t = "user" THEN 4 ELSE 1]
    /\ last = NoRequest
    /\ reqs \in [ReqIds -> {NewRequest(ask) : ask \in ToggleAsks}]
    /\ NoSessions

\* views.py 1078-1107: item_exists, then, inside transaction.atomic(),
\* favorite_exists = Favorite.objects.filter(user, item_type, item_id).exists()
ToggleSelect(r) ==
    LET q == reqs[r] IN
    /\ q.pc = "start"
    /\ IF ~item_exists(q.user, q.item_type, q.item_id)
       THEN reqs' = [reqs EXCEPT ![r].pc = "done", ![r].status = 404]
       ELSE reqs' = [reqs EXCEPT ![r].pc = "selected",
                                 ![r].favorite_exists =
                                     FavoritesOf(favorites, q.user, q.item_type, q.item_id) # {}]
    /\ UNCHANGED <<tables, nextId, last, outstanding, blacklisted, call>>

\* views.py 1109-1130: the DELETE branch, on the rows that match now
ToggleDelete(r) ==
    LET q == reqs[r] IN
    /\ q.pc = "selected" /\ q.favorite_exists
    /\ favorites' = ToggleDeleted(favorites, q.user, q.item_type, q.item_id)
    /\ reqs' = [reqs EXCEPT ![r].pc = "done", ![r].status = 200,
                            ![r].detail = "favorited=false"]
    /\ UNCHANGED <<users, songs, albums, playlists, playlistSongs, history, comments,
                   nextId, last, outstanding, blacklisted, call>>

\* views.py 1131-1173: the INSERT branch; the database refuses a second row
\* for the triple (IntegrityError), which nothing in the view catches
ToggleInsert(r) ==
    LET q == reqs[r]
        pk == nextId["favorite"]
        row == [id |-> pk, user |-> q.user, item_type |-> q.item_type, item_id |-> q.item_id]
    IN
    /\ q.pc = "selected" /\ ~q.favorite_exists
    /\ IF Favorite_unique_together(favorites, row)
       THEN /\ favorites' = favorites \cup {row}
            /\ nextId' = [nextId EXCEPT !["favorite"] = pk + 1]
            /\ reqs' = [reqs EXCEPT ![r].pc = "done", ![r].status = 201,
                                    ![r].detail = "favorited=true"]
       ELSE /\ reqs' = [reqs EXCEPT ![r].pc = "done", ![r].status = 500,
                                    ![r].detail = "IntegrityError"]
            /\ UNCHANGED <<favorites, nextId>>
    /\ UNCHANGED <<users, songs, albums, playlists, playlistSongs, history, comments, last,
                   outstanding, blacklisted, call>>

NextToggle ==
    \/ \E r \in ReqIds : ToggleSelect(r)
    \/ \E r \in ReqIds : ToggleDelete(r)
    \/ \E r \in ReqIds : ToggleInsert(r)

SpecToggle == InitToggle /\ [][NextToggle]_vars

AllDone == \A r \in ReqIds : reqs[r].pc = "done"

\* The requests of order (a sequence of request ids) run one after another
\* on the favorites F: the answers they get, and the favorites they leave.
RECURSIVE OneByOne(_, _, _)
OneByOne(order, F, pk) ==
    IF order = <<>> THEN [answers |-> <<>>, favorites |-> F]
    ELSE LET q == reqs[Head(order)]
             out == ToggleOutcome(F, q.user, q.item_type, q.item_id, pk)
             more == OneByOne(Tail(order), out.favorites,
                              IF out.status = 201 THEN pk + 1 ELSE pk)
         IN [answers |-> <<[req |-> Head(order), status |-> out.status,
                            detail |-> out.detail]>> \o more.answers,
             favorites |-> more.favorites]

Orders == {o \in [ReqIds -> ReqIds] : \A a, b \in ReqIds : o[a] = o[b] => a = b}

\* the (user, item_type, item_id) triples that have a Favorite row in F
Triples(F) == {<<f.user, f.item_type, f.item_id>> : f \in F}

\* some one-by-one order gives every request its answer and leaves the
\* favorites that are there now
Serializable ==
    \E o \in Orders :
        LET run == OneByOne([i \in ReqIds |-> o[i]], ToggleFavorites, 2) IN
        /\ \A i \in ReqIds :
              /\ reqs[run.answers[i].req].status = run.answers[i].status
              /\ reqs[run.answers[i].req].detail = run.answers[i].detail
        /\ Triples(run.favorites) = Triples(favorites)

(* C6: the favorite toggle is atomic: whatever the interleaving of concurrent
   toggle requests, no request ends in an unhandled error, and the answers and
   the final presence or absence of the Favorite rows are those of running
   the same requests one after another in some order. *)
C6_ToggleAtomic ==
    AllDone => /\ \A r \in ReqIds : reqs[r].status # 500
               /\ Serializable

(***************************************************************************)
(* Deleting a user: the admin site's delete of CustomUserAdmin, and the    *)
(* on_delete rules that follow from the user's rows                        *)
(***************************************************************************)
\* The admin site is not an API requester: its steps carry user NULL.
AdminDeleteUser(uid) ==
    /\ UNCHANGED rest
    /\ HasRow(users, uid)
    /\ LET goneSongs == {s.id : s \in {x \in songs : x.artist = uid}}
           goneAlbums == {a.id : a \in {x \in albums : x.artist = uid}}
           gonePlaylists == {p.id : p \in {x \in playlists : x.user = uid}}
       IN /\ users' = {u \in users : u.id # uid}
          /\ songs' = SongsAfterAlbumDelete({s \in songs : s.artist # uid}, goneAlbums)
          /\ albums' = {a \in albums : a.artist # uid}
          /\ playlists' = {p \in playlists : p.user # uid}
          /\ playlistSongs' = PlaylistSongsAfterDelete(gonePlaylists, goneSongs)
          /\ favorites' = {f \in favorites : f.user # uid}
          /\ history' = HistoryAfterDelete({uid}, goneSongs)
          /\ comments' = {c \in comments : c.user # uid}
    /\ last' = Response("admin_user_delete", NULL, uid, 200)
    /\ UNCHANGED nextId

(***************************************************************************)
(* SpecCascade: deletes of songs, albums and users on a database whose     *)
(* rows reference one another.                                             *)
(***************************************************************************)
CascadeAlbums ==
    { [id |-> 1, artist |-> 1, title |-> "a"],
      [id |-> 2, artist |-> 2, title |-> "b"] }
\* song 2 is artist 2's song in artist 1's album
CascadeSongs ==
    { [id |-> 1, artist |-> 1, album |-> 1, approved |-> TRUE, play_count |-> 0],
      [id |-> 2, artist |-> 2, album |-> 1, approved |-> TRUE, play_count |-> 0],
      [id |-> 3, artist |-> 2, album |-> 2, approved |-> TRUE, play_count |-> 0] }
CascadePlaylists ==
    { [id |-> 1, user |-> 3, is_public |-> TRUE, recent |-> TRUE],
      [id |-> 2, user |-> 1, is_public |-> FALSE, recent |-> TRUE] }
CascadePlaylistSongs ==
    { [id |-> 1, playlist |-> 1, song |-> 1, order |-> 0],
      [id |-> 2, playlist |-> 1, song |-> 2, order |-> 1],
      [id |-> 3, playlist |-> 2, song |-> 3, order |-> 0] }
CascadeHistory ==
    { [id |-> 1, user |-> 3, song |-> 1],
      [id |-> 2, user |-> 1, song |-> 3],
      [id |-> 3, user |-> 2, song |-> 1] }
CascadeFavorites ==
    { [id |-> 1, user |-> 3, item_type |-> "song", item_id |-> 1],
      [id |-> 2, user |-> 1, item_type |-> "album", item_id |-> 2] }
CascadeComments ==
    { [id |-> 1, user |-> 3, item_type |-> "song", item_id |-> 1, content |-> "x"],
      [id |-> 2, user |-> 2, item_type |-> "album", item_id |-> 1, content |-> "y"] }

InitCascade ==
    /\ users = ContentUsers
    /\ songs = CascadeSongs
    /\ albums = CascadeAlbums
    /\ playlists = CascadePlaylists
    /\ playlistSongs = CascadePlaylistSongs
    /\ history = CascadeHistory
    /\ favorites = CascadeFavorites
    /\ comments = CascadeComments
    /\ nextId = [t \in TableNames |-> 4]
    /\ last = NoRequest
    /\ reqs = <<>>
    /\ NoSessions

NextCascade ==
    \/ \E u \in Requesters, pk \in {s.id : s \in CascadeSongs} : SongDelete(u, pk)
    \/ \E u \in Requesters, pk \in {a.id : a \in CascadeAlbums} : AlbumDelete(u, pk)
    \/ \E uid \in {c.id : c \in ContentUsers} : AdminDeleteUser(uid)

SpecCascade == InitCascade /\ [][NextCascade]_vars

\* the rows of table T that reference user uid through field f
\* (f is "artist" for songs and albums, "user" for the rest)
OwnedBy(T, f, uid) == {r \in T : r[f] = uid}

\* C9: cascade rules.  A successful album delete removes the album and no
\* song: every song is still there, the ones that were in the album with
\* album = null and otherwise as they were.  A successful song delete
\* removes the song and exactly the PlaylistSong and ListeningHistory rows
\* that reference it, and leaves playlists, albums and users in place.  A
\* user delete leaves no song, album, playlist, favorite, listening-history
\* row or comment of that user behind.
C9_CascadeRules ==
    [][ /\ (last'.op = "album_delete" /\ last'.status = 204) =>
            /\ albums' = {a \in albums : a.id # last'.pk}
            /\ Cardinality(songs') = Cardinality(songs)
            /\ \A s \in songs :
                  (IF s.album = last'.pk THEN [s EXCEPT !.album = NULL] ELSE s) \in songs'
        /\ (last'.op = "song_delete" /\ last'.status = 204) =>
            /\ songs' = {s \in songs : s.id # last'.pk}
            /\ playlistSongs' = {ps \in playlistSongs : ps.song # last'.pk}
            /\ history' = {h \in history : h.song # last'.pk}
            /\ UNCHANGED <<playlists, albums, users>>
        /\ (last'.op = "admin_user_delete") =>
            /\ ~HasRow(users', last'.pk)
            /\ OwnedBy(songs', "artist", last'.pk) = {}
            /\ OwnedBy(albums', "artist", last'.pk) = {}
            /\ OwnedBy(playlists', "user", last'.pk) = {}
            /\ OwnedBy(favorites', "user", last'.pk) = {}
            /\ OwnedBy(history', "user", last'.pk) = {}
            /\ OwnedBy(comments', "user", last'.pk) = {}
      ]_vars

\* Witness: a song was just deleted, taking PlaylistSong and history rows with
\* it, after an album delete had set another song's album to null and a user
\* delete had removed an account together with its rows.
C9_Witness ==
    /\ last.op = "song_delete" /\ last.status = 204
    /\ Cardinality(playlistSongs) < Cardinality(CascadePlaylistSongs)
    /\ Cardinality(history) < Cardinality(CascadeHistory)
    /\ \E s \in songs : s.album = NULL /\ ~HasRow(albums, 1) /\ HasRow(users, 1)
    /\ ~HasRow(users, 3) /\ favorites = {f \in CascadeFavorites : f.user # 3}
    /\ HasRow(users, 2)

(***************************************************************************)
(* Accounts: users/views.py, users/serializers.py, users/utils.py,         *)
(* users/permissions.py and the admin actions of users/admin.py.           *)
(* An account row here also carries its username, email and password.      *)
(***************************************************************************)
Roles == {"listener", "artist"}
Passwords == {"p", "q"}
\* the account ids a request can name: the last one is never registered, and
\* one not registered yet names nobody either
AccountIds == 1..(MaxUsers + 1)

Uids == {encode_uid(pk) : pk \in AccountIds} \cup {BadUid, NoUid}
\* the None that decode_uid returns
NoUser == [id |-> NULL]
\* the mutant of decode_uid: any well-formed uid finds some account
Mutant_decode_uid(uidb64) ==
    IF uidb64[1] = "b64" /\ users # {} THEN CHOOSE u \in users : TRUE ELSE NoUser

\* utils.decode_uid: the user with that pk, or None on any error
decode_uid(uidb64) ==
    IF uidb64[1] = "b64" /\ HasRow(users, uidb64[2]) THEN Row(users, uidb64[2]) ELSE NoUser

\* The tokens of users/tokens.py, as a request can carry them: made by the
\* email-verification or the password-reset generator for a user, still
\* current or not (timed out, or made for an older state of the account).
Tokens == [kind : {"verify", "reset"}, user : AccountIds, current : BOOLEAN]
email_verification_token_check_token(user, token) ==
    token.kind = "verify" /\ token.user = user.id /\ token.current
password_reset_token_check_token(user, token) ==
    token.kind = "reset" /\ token.user = user.id /\ token.current

\* Usernames and email addresses are numbered like the accounts; address 0 stands for a text
\* that is not an email address.  User.username is unique, User.email is not.
NotAnEmail == NULL
WithUsername(username) == {u \in users : u.username = username}
WithEmail(email) == {u \in users : u.email = email}
\* a mail handed to the mail server: its kind and its recipient
Mail(kind, email_to) == [kind |-> kind, to |-> email_to]

\* POST /api/auth/register/
RegisterBodies ==
    [username : AccountIds, email : AccountIds, role : Roles, password : Passwords,
     confirm_password : Passwords, email_verified : {TRUE}]

\* RegisterSerializer.create: User.objects.create(username, email, role)
\* and set_password; email_verified is not a field of the serializer
RegisterSerializer_create(body, pk) ==
    [id |-> pk, username |-> body.username, email |-> body.email, role |-> body.role,
     email_verified |-> FALSE, password |-> body.password]

\* RegisterView (CreateAPIView): the unique validator of username, validate,
\* then create, which saves the account and after that sends the mail.
\* sent: whether send_email_verification (fail_silently=False) got the mail
\* out; when it raises, nothing undoes the save and the answer is 500.
Register(body, sent) ==
    /\ UNCHANGED rest
    /\ LET pk == nextId["user"] IN
       IF WithUsername(body.username) # {}
       THEN /\ last' = [Response("register", Anon, NULL, 400)
                           EXCEPT !.detail = "A user with that username already exists."]
            /\ UNCHANGED <<tables, nextId>>
       ELSE IF body.password # body.confirm_password
       THEN /\ last' = [Response("register", Anon, NULL, 400)
                           EXCEPT !.detail = "Passwords do not match."]
            /\ UNCHANGED <<tables, nextId>>
       ELSE /\ pk <= MaxUsers
            /\ users' = users \cup {RegisterSerializer_create(body, pk)}
            /\ nextId' = [nextId EXCEPT !["user"] = pk + 1]
            /\ last' = IF sent
                       THEN [Response("register", Anon, pk, 201)
                                EXCEPT !.mailed = {Mail("verify", body.email)}]
                       ELSE Response("register", Anon, pk, 500)
            /\ UNCHANGED <<songs, albums, playlists, playlistSongs, favorites, history,
                           comments>>

\* LoginSerializer.validate: authenticate(username, password)
authenticate(username, password) ==
    {u \in WithUsername(username) : u.password = password}

\* The refresh tokens that logins issue, until the table holds MaxTokens.
MaxTokens == 1

\* jwt_for_user: RefreshToken.for_user(user) signs a refresh token and
\* records it as an OutstandingToken row of the user
jwt_for_user(u) == [id |-> Cardinality(outstanding) + 1, user |-> u]

\* POST /api/auth/login/
Login(username, password) ==
    /\ UNCHANGED <<reqs, blacklisted, call>>
    /\ IF authenticate(username, password) # {}
       THEN /\ Cardinality(outstanding) < MaxTokens
            /\ \E user \in authenticate(username, password) :
                  /\ outstanding' = outstanding \cup {jwt_for_user(user.id)}
                  /\ last' = [Response("login", Anon, username, 200)
                                 EXCEPT !.arg = (jwt_for_user(user.id)).id]
       ELSE /\ last' = Response("login", Anon, username, 400)
            /\ UNCHANGED outstanding
    /\ UNCHANGED <<tables, nextId>>

\* the body of a profile update; email_verified is sent by a client that
\* tries to set it
MeBodies == [role : Roles, email_verified : BOOLEAN]

\* the mutant of the profile update: email_verified is writable
Mutant_MeSerializer_update(row, body) ==
    [row EXCEPT !.role = body.role, !.email_verified = body.email_verified]

\* MeSerializer: id, email_verified and display_name are read-only
MeSerializer_update(row, body) == [row EXCEPT !.role = body.role]

\* PUT/PATCH /api/auth/me/
MeUpdate(method, u, body) ==
    /\ UNCHANGED rest
    /\ IF ~IsAuthenticated(u)
       THEN /\ last' = Response("me_update", u, NULL, Denied(u))
            /\ UNCHANGED <<tables, nextId>>
       ELSE /\ users' = (users \ {Row(users, u)}) \cup {MeSerializer_update(Row(users, u), body)}
            /\ last' = Response("me_update", u, u, 200)
            /\ UNCHANGED <<songs, albums, playlists, playlistSongs, favorites, history,
                           comments, nextId>>

\* GET /api/auth/verify-email/?uid=..&token=..
VerifyEmail(uidb64, token) ==
    /\ UNCHANGED rest
    /\ LET user == decode_uid(uidb64) IN
       IF user # NoUser /\ email_verification_token_check_token(user, token)
       THEN /\ users' = (users \ {user}) \cup {[user EXCEPT !.email_verified = TRUE]}
            /\ last' = [Response("verify_email", Anon, NULL, 200)
                           EXCEPT !.uid = uidb64, !.token = token]
            /\ UNCHANGED <<songs, albums, playlists, playlistSongs, favorites, history,
                           comments, nextId>>
       ELSE /\ last' = [Response("verify_email", Anon, NULL, 400)
                           EXCEPT !.uid = uidb64, !.token = token]
            /\ UNCHANGED <<tables, nextId>>

\* What the two mail endpoints share: the EmailField of the serializer,
\* User.objects.get(email=email), then the mail.  get raises DoesNotExist
\* when no account has the address, which the view catches, and
\* MultipleObjectsReturned when several have it, which it does not; sent says
\* whether send_mail (fail_silently=False) got the mail out.
MailEndpoint(op, kind, email, sent, absent, present) ==
    /\ UNCHANGED rest
    /\ last' =
          IF email = NotAnEmail
          THEN [Response(op, Anon, email, 400) EXCEPT !.detail = "Enter a valid email address."]
          ELSE IF WithEmail(email) = {}
          THEN [Response(op, Anon, email, 200) EXCEPT !.detail = absent]
          ELSE IF Cardinality(WithEmail(email)) > 1
          THEN [Response(op, Anon, email, 500) EXCEPT !.detail = "MultipleObjectsReturned"]
          ELSE IF ~sent
          THEN [Response(op, Anon, email, 500) EXCEPT !.detail = "SMTPException"]
          ELSE [Response(op, Anon, email, 200)
                   EXCEPT !.detail = present, !.mailed = {Mail(kind, email)}]
    /\ UNCHANGED <<tables, nextId>>

\* POST /api/auth/resend-verification/
ResendVerification(email, sent) ==
    MailEndpoint("resend_verification", "verify", email, sent,
                 "If an account exists, a verification email has been sent.",
                 "Verification email sent.")

\* POST /api/auth/forgot-password/
ForgotPassword(email, sent) ==
    MailEndpoint("forgot_password", "reset", email, sent,
                 "If an account exists, password reset was sent.",
                 "If an account exists, password reset was sent.")

\* a body without the new_password field, or with a blank one
NoPassword == ""

\* POST /api/auth/reset-password/: the three CharFields of the serializer
\* are required and not blank
ResetPassword(uidb64, token, new_password) ==
    /\ UNCHANGED rest
    /\ LET user == decode_uid(uidb64) IN
       IF uidb64 = NoUid \/ token = NoToken \/ new_password = NoPassword
       THEN /\ last' = [Response("reset_password", Anon, NULL, 400)
                           EXCEPT !.uid = uidb64, !.detail = "This field is required."]
            /\ UNCHANGED <<tables, nextId>>
       ELSE IF user = NoUser \/ ~password_reset_token_check_token(user, token)
       THEN /\ last' = [Response("reset_password", Anon, NULL, 400)
                           EXCEPT !.uid = uidb64, !.detail = "Invalid or expired token."]
            /\ UNCHANGED <<tables, nextId>>
       ELSE /\ users' = (users \ {user}) \cup {[user EXCEPT !.password = new_password]}
            /\ last' = [Response("reset_password", Anon, NULL, 200)
                           EXCEPT !.uid = uidb64, !.detail = "Password reset successfully."]
            /\ UNCHANGED <<songs, albums, playlists, playlistSongs, favorites, history,
                           comments, nextId>>

\* permissions.IsEmailVerified.has_permission
IsEmailVerified(u) == IsAuthenticated(u) /\ (Row(users, u)).email_verified

\* GET /api/auth/verified-only/
VerifiedOnly(u) ==
    /\ UNCHANGED rest
    /\ last' = Response("verified_only", u, NULL,
                        IF ~IsAuthenticated(u) THEN Denied(u)
                        ELSE IF ~IsEmailVerified(u) THEN 403 ELSE 200)
    /\ UNCHANGED <<tables, nextId>>

\* CustomUserAdmin.mark_verified / mark_unverified on the selected account:
\* queryset.update(email_verified=value)
AdminMarkVerified(uid, value) ==
    /\ UNCHANGED rest
    /\ HasRow(users, uid)
    /\ users' = (users \ {Row(users, uid)})
                    \cup {[Row(users, uid) EXCEPT !.email_verified = value]}
    /\ last' = Response(IF value THEN "admin_mark_verified" ELSE "admin_mark_unverified",
                        NULL, uid, 200)
    /\ UNCHANGED <<songs, albums, playlists, playlistSongs, favorites, history, comments,
                   nextId>>

\* The user change form of CustomUserAdmin: role and email_verified are
\* among its editable fields.
AdminChangeUser(uid, body) ==
    /\ UNCHANGED rest
    /\ HasRow(users, uid)
    /\ users' = (users \ {Row(users, uid)})
                    \cup {[Row(users, uid) EXCEPT !.role = body.role,
                                                 !.email_verified = body.email_verified]}
    /\ last' = Response("admin_change_user", NULL, uid, 200)
    /\ UNCHANGED <<songs, albums, playlists, playlistSongs, favorites, history, comments,
                   nextId>>

(***************************************************************************)
(* SpecAuth: registration, login, profile, verification and password       *)
(* endpoints and the admin's verification actions, from no accounts.       *)
(***************************************************************************)
InitAuth ==
    /\ users = {}
    /\ songs = {} /\ albums = {} /\ playlists = {} /\ playlistSongs = {}
    /\ favorites = {} /\ history = {} /\ comments = {}
    /\ nextId = [t \in TableNames |-> 1]
    /\ last = NoRequest
    /\ reqs = <<>>
    /\ NoSessions

\* a request carries a token that a generator made for an account, or none
NextAuth ==
    \/ \E body \in {b \in RegisterBodies : b.username = nextId["user"] /\ b.email = b.username},
          sent \in BOOLEAN : Register(body, sent)
    \/ \E username \in AccountIds, password \in Passwords : Login(username, password)
    \/ \E m \in WriteMethods, u \in Requesters, body \in MeBodies : MeUpdate(m, u, body)
    \/ \E uidb64 \in Uids, token \in {tk \in Tokens : HasRow(users, tk.user)} \cup {NoToken} :
          VerifyEmail(uidb64, token)
    \/ \E email \in AccountIds, sent \in BOOLEAN : ResendVerification(email, sent)
    \/ \E email \in AccountIds, sent \in BOOLEAN : ForgotPassword(email, sent)
    \/ \E uidb64 \in Uids,
          token \in {tk \in Tokens : tk.kind = "reset" /\ HasRow(users, tk.user)} \cup {NoToken},
          pw \in Passwords : ResetPassword(uidb64, token, pw)
    \/ \E u \in Requesters : VerifiedOnly(u)
    \/ \E uid \in AccountIds, value \in BOOLEAN : AdminMarkVerified(uid, value)
    \/ \E uid \in AccountIds, body \in MeBodies : AdminChangeUser(uid, body)

SpecAuth == InitAuth /\ [][NextAuth]_vars

(***************************************************************************)
(* Claims on email verification                                            *)
(***************************************************************************)
AdminOps == {"admin_mark_verified", "admin_mark_unverified", "admin_change_user"}
UnverifyingOps == {"register", "login", "me_update", "resend_verification",
                   "forgot_password", "reset_password"}

\* the accounts whose flag the step turns on, and those whose flag it turns off
BecameVerified ==
    {u.id : u \in {x \in users : ~x.email_verified
                                    /\ \E y \in users' : y.id = x.id /\ y.email_verified}}
BecameUnverified ==
    {u.id : u \in {x \in users : x.email_verified
                                    /\ \E y \in users' : y.id = x.id /\ ~y.email_verified}}

\* request r is a verify-email request whose uid decodes to account uid and
\* whose token is valid for that account
ValidVerifyRequest(r, uid) ==
    /\ r.op = "verify_email"
    /\ r.uid = encode_uid(uid)
    /\ HasRow(users, uid)
    /\ email_verification_token_check_token(Row(users, uid), r.token)

\* What the claim says of one step: a flag turns on only by a valid
\* verify-email request for that account; any other verify-email request
\* answers 400 and changes nothing; registration, login, profile update and
\* the password operations change no flag (and a new account starts
\* unverified); the verified-only endpoint answers 200 only to an
\* authenticated, verified user.
VerificationStep ==
    /\ \A uid \in BecameVerified : last'.status = 200 /\ ValidVerifyRequest(last', uid)
    /\ (last'.op = "verify_email" /\ ~\E u \in users : ValidVerifyRequest(last', u.id)) =>
           last'.status = 400 /\ UNCHANGED <<tables, nextId>>
    /\ last'.op \in UnverifyingOps =>
           /\ BecameVerified = {} /\ BecameUnverified = {}
           /\ \A v \in users' : ~HasRow(users, v.id) => ~v.email_verified
    /\ (last'.op = "verified_only" /\ last'.status = 200) =>
           IsAuthenticated(last'.user) /\ (Row(users, last'.user)).email_verified

\* C10 as stated: email_verified turns on only through a valid verify-email
\* request, an invalid one answers 400 and changes nothing, no other
\* operation changes the flag, and it never returns to False; the
\* verified-only endpoint answers 200 only to an authenticated verified user.
C10_OnlyVerifyEmailEverVerifies ==
    [][VerificationStep /\ BecameUnverified = {}]_vars

\* C10 as amended: the statement holds of every request to the REST
\* endpoints; a step of the admin site (mark_verified, mark_unverified, the
\* user change form) changes the flag of the selected account only, to the
\* value the administrator chose, which may be False.
C10_OnlyVerifyEmailVerifiesThroughApi ==
    [][ /\ last'.op \notin AdminOps => VerificationStep /\ BecameUnverified = {}
        /\ last'.op \in AdminOps =>
              /\ BecameVerified \cup BecameUnverified \subseteq {last'.pk}
              /\ last'.op = "admin_mark_verified" => BecameUnverified = {}
              /\ last'.op = "admin_mark_unverified" => BecameVerified = {}
      ]_vars

\* Witness: a verify-email request with the account's uid and a valid token
\* was just answered 200 and the account is verified.
C10_Witness ==
    /\ last.op = "verify_email" /\ last.status = 200
    /\ \E u \in users : /\ last.uid = encode_uid(u.id)
                         /\ email_verification_token_check_token(u, last.token)
                         /\ u.email_verified

(***************************************************************************)
(* SpecLogout: two accounts log in and log out.                            *)
(***************************************************************************)
\* The refresh field of a logout body: jti names the token, intact says
\* that its signature verifies and that it has not expired.
NoRefresh == [jti |-> NULL, intact |-> FALSE]
RefreshBodies == {NoRefresh} \cup [jti : 1..(MaxTokens + 1), intact : BOOLEAN]

\* RefreshToken(token): the signature and expiry checks, then
\* check_blacklist, raise TokenError
RefreshToken_verify(refresh) == refresh.intact /\ refresh.jti \notin blacklisted

\* the mutant of the filter: no outstanding token is found
Mutant_OutstandingOf(u) == {}

\* OutstandingToken.objects.filter(user=request.user)
OutstandingOf(u) == {t.id : t \in {o \in outstanding : o.user = u}}

\* POST /api/auth/logout/
Logout(u, refresh) ==
    /\ UNCHANGED <<reqs, call, outstanding>>
    /\ IF ~IsAuthenticated(u)
       THEN /\ last' = Response("logout", u, refresh.jti, Denied(u))
            /\ UNCHANGED blacklisted
       ELSE IF refresh # NoRefresh /\ ~RefreshToken_verify(refresh)
       THEN /\ last' = [Response("logout", u, refresh.jti, 400)
                           EXCEPT !.detail = "Logout failed."]
            /\ UNCHANGED blacklisted
       ELSE /\ blacklisted' = blacklisted \cup OutstandingOf(u)
                                 \cup (IF refresh = NoRefresh THEN {} ELSE {refresh.jti})
            /\ last' = [Response("logout", u, refresh.jti, 200)
                           EXCEPT !.detail = "Successfully logged out."]
    /\ UNCHANGED <<tables, nextId>>

\* Three accounts that registration has created; two of them gave the same
\* email address.
RegisteredUsers ==
    { [id |-> 1, username |-> 1, email |-> 1, role |-> "listener",
       email_verified |-> TRUE, password |-> "p"],
      [id |-> 2, username |-> 2, email |-> 2, role |-> "artist",
       email_verified |-> FALSE, password |-> "q"],
      [id |-> 3, username |-> 3, email |-> 2, role |-> "listener",
       email_verified |-> FALSE, password |-> "p"] }

InitAccounts ==
    /\ users = RegisteredUsers
    /\ songs = {} /\ albums = {} /\ playlists = {} /\ playlistSongs = {}
    /\ favorites = {} /\ history = {} /\ comments = {}
    /\ nextId = [t \in TableNames |-> IF t = "user" THEN 4 ELSE 1]
    /\ last = NoRequest
    /\ reqs = <<>>
    /\ NoSessions

\* a token whose signature verifies is one that a login issued
NextLogout ==
    \/ \E username \in UserIds, password \in Passwords : Login(username, password)
    \/ \E u \in Requesters, refresh \in RefreshBodies :
          /\ refresh.intact => HasRow(outstanding, refresh.jti)
          /\ Logout(u, refresh)

SpecLogout == InitAccounts /\ [][NextLogout]_vars

\* the refresh tokens issued to an account
IssuedTo(u) == {o.id : o \in {t \in outstanding : t.user = u}}

\* C11 as stated: after a logout request by an authenticated user, every
\* refresh token issued to that user is blacklisted, whether or not a
\* refresh token was supplied and whatever its validity.
C11_LogoutBlacklistsAll ==
    (last.op = "logout" /\ IsAuthenticated(last.user))
        => IssuedTo(last.user) \subseteq blacklisted

\* C11 amended: a logout request by an authenticated user that supplies no
\* refresh token, or one that verifies, answers 200 and blacklists the
\* supplied token and every outstanding token of that user; a request that
\* supplies a refresh token that does not verify answers 400 "Logout
\* failed." and blacklists nothing.
C11_LogoutBlacklistsUnlessTokenInvalid ==
    [][(last'.op = "logout" /\ IsAuthenticated(last'.user)) =>
          /\ last'.status \in {200, 400}
          /\ last'.pk = NULL => last'.status = 200
          /\ last'.status = 200 =>
                /\ blacklisted' = blacklisted \cup IssuedTo(last'.user)
                                     \cup ({last'.pk} \ {NULL})
                /\ last'.pk # NULL => last'.pk \notin blacklisted
          /\ last'.status = 400 =>
                /\ last'.detail = "Logout failed."
                /\ blacklisted' = blacklisted]_vars

\* a logout without a refresh token has blacklisted the requester's
\* outstanding token
C11_Witness ==
    /\ last.op = "logout" /\ last.status = 200 /\ last.pk = NULL
    /\ IssuedTo(last.user) # {}
    /\ IssuedTo(last.user) \subseteq blacklisted

(***************************************************************************)
(* SpecRecovery: the mail and password-reset endpoints on three accounts.  *)
(***************************************************************************)
\* the addresses and uids a request can name: those of the accounts, one
\* that no account has, and a malformed one
NextRecovery ==
    \/ \E email \in UserIds \cup {nextId["user"], NotAnEmail}, sent \in BOOLEAN :
          ResendVerification(email, sent)
    \/ \E email \in UserIds \cup {nextId["user"], NotAnEmail}, sent \in BOOLEAN :
          ForgotPassword(email, sent)
    \/ \E uidb64 \in {encode_uid(pk) : pk \in UserIds \cup {nextId["user"]}}
                          \cup {BadUid, NoUid},
          token \in Tokens \cup {NoToken}, pw \in Passwords \cup {NoPassword} :
          ResetPassword(uidb64, token, pw)
    \/ \E pk \in UserIds, token \in Tokens : VerifyEmail(encode_uid(pk), token)

SpecRecovery == InitAccounts /\ [][NextRecovery]_vars

\* C12: every reset request that carries a uid, a token and a new password
\* either names an existing account with a token valid for it, and then
\* exactly that account's password becomes new_password and the answer is
\* 200, or it answers 400 "Invalid or expired token." and no account changes.
C12_ResetOnlyWithValidToken ==
    [][(last'.op = "reset_password" /\ last'.uid # NoUid) =>
       \A token \in Tokens, new_password \in Passwords :
          ResetPassword(last'.uid, token, new_password) =>
             LET uidb64 == last'.uid
                 named == {u \in users : uidb64[1] = "b64" /\ u.id = uidb64[2]}
                 valid == /\ named # {}
                          /\ token.kind = "reset" /\ token.current
                          /\ \A u \in named : token.user = u.id
             IN  IF valid
                 THEN /\ last'.status = 200
                      /\ users' = {IF u \in named THEN [u EXCEPT !.password = new_password]
                                   ELSE u : u \in users}
                 ELSE /\ last'.status = 400
                      /\ last'.detail = "Invalid or expired token."
                      /\ users' = users]_vars

\* a reset with a valid token has changed the password of account 1, and of
\* no other account
C12_Witness ==
    /\ last.op = "reset_password" /\ last.status = 200 /\ last.uid = encode_uid(1)
    /\ \E u \in users : u.id = 1 /\ u.password = "q"
    /\ users \ {u \in users : u.id = 1} = {u \in RegisteredUsers : u.id # 1}

\* C13: for a syntactically valid email, resend-verification answers the
\* same status and body whether or not an account has the address: the
\* answer it gives when none has it.
C13_ResendHidesAccounts ==
    (last.op = "resend_verification" /\ last.pk # NotAnEmail)
        => /\ last.status = 200
           /\ last.detail = "If an account exists, a verification email has been sent."

\* C14: for a syntactically valid email, forgot-password answers 200 "If an
\* account exists, password reset was sent." whether or not an account has
\* the address, sends a reset mail only when one has it, and changes no
\* account.
C14_ForgotHidesAccounts ==
    [][(last'.op = "forgot_password" /\ last'.pk # NotAnEmail)
          => /\ last'.status = 200
             /\ last'.detail = "If an account exists, password reset was sent."
             /\ last'.mailed # {} => WithEmail(last'.pk) # {}
             /\ users' = users]_vars

(***************************************************************************)
(* SpecRegister: registrations with any username and address, and logins,  *)
(* from no accounts.                                                       *)
(***************************************************************************)
NextRegister ==
    \/ \E body \in RegisterBodies, sent \in BOOLEAN : Register(body, sent)
    \/ \E username \in AccountIds, password \in Passwords : Login(username, password)

SpecRegister == InitAuth /\ [][NextRegister]_vars

\* C18: a register request whose passwords differ, or whose verification
\* mail cannot be sent, does not answer success and leaves no new account;
\* one that answers success has created exactly one account, with the given
\* username, email and role and email_verified = False, and has sent one
\* verification mail.
C18_RegisterAllOrNothing ==
    [][last'.op = "register" =>
       \A body \in RegisterBodies, sent \in BOOLEAN :
          Register(body, sent) =>
             /\ (body.password # body.confirm_password \/ ~sent)
                   => (last'.status # 201 /\ users' = users)
             /\ last'.status = 201
                   => /\ \E u \in users' \ users :
                            /\ users' = users \cup {u}
                            /\ u.username = body.username /\ u.email = body.email
                            /\ u.role = body.role /\ ~u.email_verified
                      /\ last'.mailed = {Mail("verify", body.email)}]_vars

(***************************************************************************)
(* SpecStream: concurrent GET /api/songs/stream/<pk>/ requests.  Each      *)
(* request fetches the song row, and later writes the row's play_count     *)
(* from the copy it fetched.                                               *)
(***************************************************************************)
\* who streams what: nobody or the listener, a song or a pk without one
StreamAsks == [user : {Anon, 3}, pk : {s.id : s \in EntrySongs} \cup {3}]

NewStream(ask) ==
    [pc |-> "start", user |-> ask.user, pk |-> ask.pk, play_count |-> 0, status |-> 0]

InitStream ==
    /\ users = EntryUsers
    /\ songs = EntrySongs
    /\ albums = {} /\ playlists = {} /\ playlistSongs = {}
    /\ favorites = {} /\ history = {} /\ comments = {}
    /\ nextId = [t \in TableNames |->
                    IF t = "song" THEN 3 ELSE IF t = "user" THEN 4 ELSE 1]
    /\ last = NoRequest
    /\ reqs \in [ReqIds -> {NewStream(ask) : ask \in StreamAsks}]
    /\ NoSessions

\* views.py 233-237: song = get_object_or_404(Song, pk=pk), and the
\* ListeningHistory row of an authenticated listener
StreamFetch(r) ==
    LET q == reqs[r] IN
    /\ q.pc = "start"
    /\ IF ~HasRow(songs, q.pk)
       THEN /\ reqs' = [reqs EXCEPT ![r].pc = "done", ![r].status = 404]
            /\ UNCHANGED <<history, nextId>>
       ELSE /\ reqs' = [reqs EXCEPT ![r].pc = "fetched",
                                    ![r].play_count = (Row(songs, q.pk)).play_count]
            /\ IF q.user = Anon
               THEN UNCHANGED <<history, nextId>>
               ELSE /\ history' = history \cup
                          {[id |-> nextId["history"], user |-> q.user, song |-> q.pk]}
                    /\ nextId' = [nextId EXCEPT !["history"] = @ + 1]
    /\ UNCHANGED <<users, songs, albums, playlists, playlistSongs, favorites, comments,
                   last, outstanding, blacklisted, call>>

\* views.py 258-259: song.play_count += 1 on the fetched copy, then
\* song.save(update_fields=["play_count"])
StreamSave(table, q) ==
    {IF s.id = q.pk THEN [s EXCEPT !.play_count = q.play_count + 1] ELSE s : s \in table}

\* views.py 239-260: the file is read and answered (served), or reading it
\* raises and the request ends in a 500 before the count is written
StreamRespond(r, served) ==
    LET q == reqs[r] IN
    /\ q.pc = "fetched"
    /\ IF served
       THEN /\ songs' = StreamSave(songs, q)
            /\ reqs' = [reqs EXCEPT ![r].pc = "done", ![r].status = 200]
       ELSE /\ reqs' = [reqs EXCEPT ![r].pc = "done", ![r].status = 500]
            /\ UNCHANGED songs
    /\ UNCHANGED <<users, albums, playlists, playlistSongs, favorites, history, comments,
                   nextId, last, outstanding, blacklisted, call>>

NextStream ==
    \/ \E r \in ReqIds : StreamFetch(r)
    \/ \E r \in ReqIds, served \in BOOLEAN : StreamRespond(r, served)

SpecStream == InitStream /\ [][NextStream]_vars

\* the stream requests for a song that completed
Streamed(pk) == {r \in ReqIds : reqs[r].pk = pk /\ reqs[r].status = 200}

\* C17: a song's play_count never decreases, and once the stream requests
\* have all ended it is higher than before by exactly the number of them
\* that completed for that song.
C17_PlayCountExact ==
    [][/\ \A s \in songs : (Row(songs', s.id)).play_count >= s.play_count
       /\ AllDone' => \A s \in songs' :
             s.play_count =
                (Row(EntrySongs, s.id)).play_count + Cardinality(Streamed(s.id)')]_vars

(***************************************************************************)
(* SpecAI: meloai/services.py.  A query is the set of the phrases below    *)
(* that occur in it; the Groq reply is the JSON object it carries, if any. *)
(* AIQueryView passes what process_music_query returns to execute_query.   *)
(***************************************************************************)
\* the rows a handler of execute_query can return
MaxResults == 2

\* Phrases that _fallback_processing looks for; none is part of another of
\* its phrases, so a query has any subset of them.
Phrases == {"my favorite", "my history", "recent", "my stats", "how many", "album", "songs"}

\* a key the JSON object does not have, and a key whose value is null
Missing == "<missing>"
JsonNull == "<null>"
\* The reply of the model: text without a JSON object (json = FALSE), or an
\* object with these keys; entities is an object ("dict"), null or missing.
AIContents ==
    [json : BOOLEAN,
     intent : {"search_songs", "get_aggregation", "get_stats", "play_music", Missing},
     entities : {"dict", JsonNull, Missing},
     dbms_concept : {"basic_query", JsonNull, Missing},
     natural_response : {"text", Missing}]

\* what a call gives back: the dict, by its keys and the values that the
\* callers read, or the exception that leaves the call
Returned(keys, intent, entities, dbms_concept) ==
    [raised |-> "", keys |-> keys, intent |-> intent, entities |-> entities,
     dbms_concept |-> dbms_concept]
Raised(exception) ==
    [raised |-> exception, keys |-> {}, intent |-> Missing, entities |-> Missing,
     dbms_concept |-> Missing]

\* services.py 176-384.  The branches for favorites and statistics, and the
\* history branch of a query with "recent", assign entities[...] in lines
\* 184-200, before entities = {} in line 243: UnboundLocalError.
_fallback_processing(user_query) ==
    LET has(p) == p \in user_query
        FallbackKeys == {"intent", "entities", "dbms_concept", "sql_query", "natural_response"}
        concept(intent) ==
            IF intent = "get_user_history" THEN "user_specific_query"
            ELSE IF intent = "get_aggregation" THEN "aggregation" ELSE "basic_query"
        done(intent) == Returned(FallbackKeys, intent, "dict", concept(intent))
    IN  IF has("my favorite") THEN Raised("UnboundLocalError")
        ELSE IF has("my history")
             THEN IF has("recent") THEN Raised("UnboundLocalError")
                  ELSE done("get_user_history")
        ELSE IF has("my stats") THEN Raised("UnboundLocalError")
        ELSE IF has("how many") THEN done("get_aggregation")
        ELSE IF has("recent")
             THEN IF has("album") THEN done("search_albums") ELSE done("search_songs")
        ELSE IF has("album") /\ ~has("songs") THEN done("search_albums")
        ELSE done("search_songs")

\* services.py 128-146: json.loads of the text between the first { and the
\* last }, then sql_query from the entities; only JSONDecodeError is caught,
\* and _generate_sql_query calls entities.get
_parse_ai_response(ai_content, original_query) ==
    IF ~ai_content.json THEN _fallback_processing(original_query)
    ELSE IF ai_content.entities = JsonNull THEN Raised("AttributeError")
    ELSE Returned({k \in {"intent", "entities", "dbms_concept", "natural_response"} :
                       ai_content[k] # Missing} \cup {"sql_query"},
                  ai_content.intent, ai_content.entities, ai_content.dbms_concept)

\* services.py 17-68; groq: settings.GROQ_API_KEY is empty ("no key"), the
\* request or the reading of its reply raises, or the status the API answers
process_music_query(groq, ai_content, user_query) ==
    IF groq = "no key" THEN _fallback_processing(user_query)
    ELSE IF groq # "status 200" THEN _fallback_processing(user_query)
    ELSE IF (_parse_ai_response(ai_content, user_query)).raised # ""
         THEN _fallback_processing(user_query)
    ELSE _parse_ai_response(ai_content, user_query)

Answer(raised, success, result_type, count, results, keys) ==
    [raised |-> raised, success |-> success, result_type |-> result_type, count |-> count,
     results |-> results, keys |-> keys]

\* services.py 399-464.  outcome is what the handler of the intent does: it
\* raises (a database error, a value of entities it cannot use) or returns
\* len rows; results is the number of rows in the result.
execute_query(ai_response, outcome) ==
    LET ResultTypes ==
            [i \in {"search_songs", "search_albums", "search_artists", "get_aggregation",
                    "get_user_history", "get_stats"} |->
                IF i = "search_songs" THEN "songs" ELSE IF i = "search_albums" THEN "albums"
                ELSE IF i = "search_artists" THEN "artists"
                ELSE IF i = "get_aggregation" THEN "aggregation"
                ELSE IF i = "get_user_history" THEN "user_history" ELSE "stats"]
        \* the handlers that return a dict, not a list
        DictHandlers == {"get_aggregation", "get_stats"}
        intent == IF ai_response.intent = Missing THEN "search_songs" ELSE ai_response.intent
        dbms_concept == IF ai_response.dbms_concept = Missing THEN "basic_query"
                        ELSE ai_response.dbms_concept
        known == intent \in DOMAIN ResultTypes
        handler == IF known THEN intent ELSE "search_songs"
        Keys == {"success", "result_type", "results", "count", "ai_response", "sql_query",
                 "dbms_concept"}
    IN  IF outcome.raises
        THEN IF dbms_concept = JsonNull
             THEN Answer("AttributeError", FALSE, "", 0, 0, {})
             ELSE Answer("", FALSE, "error", 0, 0, Keys \cup {"error"})
        ELSE IF handler \in DictHandlers
        THEN Answer("", TRUE, ResultTypes[handler], 1, 1, Keys)
        ELSE Answer("", TRUE, ResultTypes[handler], outcome.len, outcome.len, Keys)

\* AIQueryView.post has a query to process; a reply is there to parse only
\* when the API answers 200
InitAI ==
    /\ users = EntryUsers
    /\ songs = EntrySongs
    /\ albums = {} /\ playlists = {} /\ playlistSongs = {}
    /\ favorites = {} /\ history = {} /\ comments = {}
    /\ nextId = [t \in TableNames |->
                    IF t = "song" THEN 3 ELSE IF t = "user" THEN 4 ELSE 1]
    /\ last = NoRequest
    /\ reqs = <<>>
    /\ outstanding = {} /\ blacklisted = {}
    /\ \E groq \in {"no key", "raises", "status 500", "status 200"},
          ai_content \in AIContents, user_query \in (SUBSET Phrases) \ {{}} :
          /\ groq # "status 200" =>
                ai_content = [json |-> FALSE, intent |-> Missing, entities |-> Missing,
                              dbms_concept |-> Missing, natural_response |-> Missing]
          /\ call = [pc |-> "asked", groq |-> groq, content |-> ai_content,
                     query |-> user_query, ai_response |-> Raised(""),
                     handler |-> [raises |-> FALSE, len |-> 0],
                     result |-> Answer("", FALSE, "", 0, 0, {})]

ProcessMusicQuery ==
    /\ call.pc = "asked"
    /\ LET ai_response == process_music_query(call.groq, call.content, call.query) IN
       call' = [call EXCEPT !.ai_response = ai_response,
                            !.pc = IF ai_response.raised = "" THEN "parsed" ELSE "failed"]
    /\ UNCHANGED <<tables, nextId, last, reqs, outstanding, blacklisted>>

ExecuteQuery(outcome) ==
    /\ call.pc = "parsed"
    /\ call' = [call EXCEPT !.handler = outcome,
                            !.result = execute_query(call.ai_response, outcome),
                            !.pc = "answered"]
    /\ UNCHANGED <<tables, nextId, last, reqs, outstanding, blacklisted>>

NextAI ==
    \/ ProcessMusicQuery
    \/ \E outcome \in [raises : BOOLEAN, len : 0..MaxResults] : ExecuteQuery(outcome)

SpecAI == InitAI /\ [][NextAI]_vars

\* C15: process_music_query never raises and returns a dict with intent,
\* entities, sql_query and natural_response; without an API key, when the
\* call raises or answers another status than 200, or when the reply has no
\* JSON object, the result is the one of the rule-based fallback.
C15_ProcessNeverRaises ==
    call.pc \in {"parsed", "failed", "answered"} =>
        /\ call.ai_response.raised = ""
        /\ {"intent", "entities", "sql_query", "natural_response"} \subseteq call.ai_response.keys
        /\ (call.groq # "status 200" \/ ~call.content.json)
              => call.ai_response = _fallback_processing(call.query)

\* C16: execute_query never raises; its dict has success, result_type,
\* results, count, ai_response, sql_query and dbms_concept; an unknown or
\* missing intent is handled as search_songs; count is len(results) for a
\* list and 1 otherwise; when the handler raises, success = False,
\* result_type = "error", results = [] and count = 0.
C16_ExecuteNeverRaises ==
    call.pc = "answered" =>
        LET r == call.result
            intent == call.ai_response.intent
        IN  /\ r.raised = ""
            /\ {"success", "result_type", "results", "count", "ai_response", "sql_query",
                "dbms_concept"} \subseteq r.keys
            /\ IF call.handler.raises
               THEN ~r.success /\ r.result_type = "error" /\ r.results = 0 /\ r.count = 0
               ELSE /\ r.success
                    /\ intent \in {Missing, "play_music", "search_songs"}
                          => (r.result_type = "songs" /\ r.results = call.handler.len)
                    /\ r.count = IF intent \in {"get_aggregation", "get_stats"}
                                 THEN 1 ELSE r.results
====
